---- MODULE Spec2Model ----
(***************************************************************************)
(* Model of src/services/gemini.ts: the text extractor (extractText), the  *)
(* fallback invoker (chatWithFallback) and the three exported operations   *)
(* generatePolicyResponse, evaluateResponse and generateReference, run     *)
(* against a nondeterministic chat backend (puter.ai.chat).                *)
(*                                                                         *)
(* A JavaScript string is a sequence of tokens; a token is a non-empty     *)
(* chunk of characters, so the empty string is << >> and a string is       *)
(* truthy exactly when it is not << >>.                                    *)
(***************************************************************************)
EXTENDS Naturals, Sequences, FiniteSets

VARIABLES pc, backend, fn, style, prompt, calls, inflight,
          preferred, fallback, cwf, ret, input, extracted

vars == <<pc, backend, fn, style, prompt, calls, inflight,
          preferred, fallback, cwf, ret, input, extracted>>

\* ------------------------------------------------------------------ bounds

\* Longest content array of a response envelope.
MaxItems == 1

\* Longest run of tokens before the body of a backend text.
MaxPrefixLen == 3

\* Longest run of tokens after the body of a backend text.
MaxSuffixLen == 2

SeqsUpTo(S, n) == UNION {[1..m -> S] : m \in 0..n}

\* ----------------------------------------------------------------- strings

\* The characters String.prototype.trim and the regex class \s remove.
IsWhitespace(tok) == tok \in {" ", "\n"}

RECURSIVE TrimStart(_)
TrimStart(t) ==
  IF t = << >> THEN t
  ELSE IF IsWhitespace(Head(t)) THEN TrimStart(Tail(t)) ELSE t

RECURSIVE TrimEnd(_)
TrimEnd(t) ==
  IF t = << >> THEN t
  ELSE IF IsWhitespace(t[Len(t)]) THEN TrimEnd(SubSeq(t, 1, Len(t) - 1)) ELSE t

Trim(t) == TrimEnd(TrimStart(t))

\* ------------------------------------------------------- JavaScript values

\* A property value: undefined, null, a number, a string or an array.
Undefined == [k |-> "undefined", s |-> << >>, a |-> << >>]
Null == [k |-> "null", s |-> << >>, a |-> << >>]
Num == [k |-> "number", s |-> <<"42">>, a |-> << >>]
StrVal(t) == [k |-> "string", s |-> t, a |-> << >>]
ArrVal(items) == [k |-> "array", s |-> << >>, a |-> items]

\* An element of a content array: a string, an object with a text property
\* (a string or a number) or without one, null or a number.
StrItem(t) == [k |-> "string", s |-> t, text |-> "undefined"]
TextItem(t) == [k |-> "object", s |-> t, text |-> "string"]
NumTextItem == [k |-> "object", s |-> <<"42">>, text |-> "number"]
EmptyItem == [k |-> "object", s |-> << >>, text |-> "undefined"]
NullItem == [k |-> "null", s |-> << >>, text |-> "undefined"]
NumItem == [k |-> "number", s |-> << >>, text |-> "undefined"]

\* A message wrapper: absent, null, or an object with content and text.
NoMessage == [k |-> "undefined", content |-> Undefined, text |-> Undefined]
NullMessage == [k |-> "null", content |-> Undefined, text |-> Undefined]
Message(c, t) == [k |-> "object", content |-> c, text |-> t]

\* The entries of a choices array, and the choices property itself.
NullChoice == [k |-> "null", message |-> NoMessage, text |-> Undefined]
Choice(m, t) == [k |-> "object", message |-> m, text |-> t]
NoChoices == [k |-> "undefined", a |-> << >>]
NotArrayChoices == [k |-> "number", a |-> << >>]
ChoicesArr(cs) == [k |-> "array", a |-> cs]

\* The value puter.ai.chat resolves to.
Primitive(kind) ==
  [k |-> kind, s |-> << >>, message |-> NoMessage, content |-> Undefined,
   text |-> Undefined, choices |-> NoChoices]
StrEnv(t) == [Primitive("string") EXCEPT !.s = t]
ObjEnv(m, c, t, ch) ==
  [k |-> "object", s |-> << >>, message |-> m, content |-> c, text |-> t,
   choices |-> ch]

\* ------------------------------------------------------------- extractText

Ok(t) == [st |-> "ok", text |-> t]
TypeError == [st |-> "raise", text |-> << >>]

\* a ?? b
Coalesce(a, b) == IF a.k \in {"undefined", "null"} THEN b ELSE a

\* m?.content and m?.text
OptContent(m) == IF m.k = "object" THEN m.content ELSE Undefined
OptText(m) == IF m.k = "object" THEN m.text ELSE Undefined

\* typeof item === 'string' ? item : item.text ?? '', as join('') renders it;
\* reading .text of null or undefined throws.
ItemThrows(item) == item.k \in {"null", "undefined"}
ItemText(item) ==
  IF item.k = "string" THEN item.s
  ELSE IF item.k = "object" /\ item.text \in {"string", "number"} THEN item.s
  ELSE << >>

RECURSIVE Join(_)
Join(items) ==
  IF items = << >> THEN << >> ELSE ItemText(Head(items)) \o Join(Tail(items))

\* The content-array branch.
ExtractArray(items) ==
  IF \E i \in 1..Len(items) : ItemThrows(items[i]) THEN TypeError
  ELSE Ok(Trim(Join(items)))

\* The choices branch; candidate.choices[0].message of a null entry throws.
ExtractChoices(choices) ==
  IF choices.k = "array" /\ Len(choices.a) > 0
  THEN LET first == choices.a[1]
       IN  IF first.k \in {"null", "undefined"} THEN TypeError
           ELSE LET choiceText == Coalesce(OptContent(first.message), first.text)
                IN  IF choiceText.k = "string" THEN Ok(choiceText.s) ELSE Ok(<< >>)
  ELSE Ok(<< >>)

extractText(result) ==
  IF result.k = "string" THEN Ok(result.s)
  ELSE IF result.k # "object" THEN Ok(<< >>)
  ELSE LET nestedContent == Coalesce(OptContent(result.message), result.content)
       IN  IF nestedContent.k = "string" THEN Ok(nestedContent.s)
           ELSE IF nestedContent.k = "array" THEN ExtractArray(nestedContent.a)
           ELSE IF OptText(result.message).k = "string"
                THEN Ok(OptText(result.message).s)
           ELSE IF result.text.k = "string" THEN Ok(result.text.s)
           ELSE ExtractChoices(result.choices)

\* ------------------------------------------------- envelopes for extractText

Items == {StrItem(<<"A">>), StrItem(<<" ">>), TextItem(<<"B">>), NumTextItem,
          EmptyItem, NullItem, NumItem}

\* The values a content property takes; t is the text it holds as a string.
ContentVals(t) ==
  {Undefined, Null, Num, StrVal(<< >>), StrVal(t)}
    \cup {ArrVal(a) : a \in SeqsUpTo(Items, MaxItems)}

TextVals(t) == {Undefined, Num, StrVal(<< >>), StrVal(t)}

Messages ==
  {NoMessage, NullMessage}
    \cup {Message(c, t) : c \in ContentVals(<<"M">>), t \in TextVals(<<"N">>)}

ChoiceMessages ==
  {NoMessage}
    \cup {Message(c, Undefined) : c \in {Undefined, StrVal(<< >>), StrVal(<<"C">>)}}

ChoicesVals ==
  {NoChoices, NotArrayChoices, ChoicesArr(<< >>), ChoicesArr(<<NullChoice>>)}
    \cup {ChoicesArr(<<Choice(m, t)>>) :
            m \in ChoiceMessages, t \in {Undefined, StrVal(<< >>), StrVal(<<"Z">>)}}

\* The values that are no objects, and the objects with a given message.
PrimitiveEnvelopes ==
  {StrEnv(<< >>), StrEnv(<<"S">>), Primitive("null"), Primitive("undefined"),
   Primitive("number")}
ObjectEnvelopes(m) ==
  {ObjEnv(m, c, t, ch) : c \in ContentVals(<<"X">>), t \in TextVals(<<"T">>),
                         ch \in ChoicesVals}

NoEnvelope == Primitive("undefined")
NotExtracted == [st |-> "none", text |-> << >>]

\* ------------------------------------------ evaluateResponse: text to review

\* The token that stands for the three backticks of a code fence.
Fence == "<3 backticks>"
ScoresMember == "\"scores\":{\"a\":5}"
NotesMember == "\"notes\":\"ok\""

\* A value JSON.parse produces, over the members the backend texts use.
JsonObject(keys, a, notes) ==
  [k |-> "object", keys |-> keys, scoresA |-> a, notes |-> notes]
EmptyObject == JsonObject({}, 0, << >>)
JsonNull == [k |-> "null", keys |-> {}, scoresA |-> 0, notes |-> << >>]
NoReview == [k |-> "none", keys |-> {}, scoresA |-> 0, notes |-> << >>]

\* { notes: "Error in evaluation parsing." }
ErrorReview == JsonObject({"notes"}, 0, <<"Error in evaluation parsing.">>)

Parsed(v) == [ok |-> TRUE, value |-> v]
SyntaxError == [ok |-> FALSE, value |-> NoReview]

IsMember(tok) == tok \in {ScoresMember, NotesMember}
WithMember(obj, tok) ==
  IF tok = ScoresMember
  THEN [obj EXCEPT !.keys = @ \cup {"scores"}, !.scoresA = 5]
  ELSE [obj EXCEPT !.keys = @ \cup {"notes"}, !.notes = <<"ok">>]

\* After a complete value only whitespace may follow.
EndOfJson(v, rest) == IF TrimStart(rest) = << >> THEN Parsed(v) ELSE SyntaxError

\* member (ws "," ws member)* ws "}"
RECURSIVE ParseMembers(_, _)
ParseMembers(t, obj) ==
  IF t = << >> \/ ~IsMember(Head(t)) THEN SyntaxError
  ELSE LET next == WithMember(obj, Head(t))
           rest == TrimStart(Tail(t))
       IN  IF rest = << >> THEN SyntaxError
           ELSE IF Head(rest) = "}" THEN EndOfJson(next, Tail(rest))
           ELSE IF Head(rest) = "," THEN ParseMembers(TrimStart(Tail(rest)), next)
           ELSE SyntaxError

\* JSON.parse
JSONParse(t) ==
  LET u == TrimStart(t)
  IN  IF u = << >> THEN SyntaxError
      ELSE IF Head(u) = "null" THEN EndOfJson(JsonNull, Tail(u))
      ELSE IF Head(u) = "{"
           THEN LET r == TrimStart(Tail(u))
                IN  IF r # << >> /\ Head(r) = "}" THEN EndOfJson(EmptyObject, Tail(r))
                    ELSE ParseMembers(r, EmptyObject)
      ELSE SyntaxError

\* The optional language tag of the opening-fence pattern, which is matched
\* without regard to letter case (flag i).
IsJsonTag(tok) == tok \in {"json", "JSON"}

\* The opening-fence pattern without its optional tag.
StripOpeningFence_NoTag(t) ==
  IF t # << >> /\ Head(t) = Fence THEN TrimStart(Tail(t)) ELSE t

\* The first replace of line 141: at the start of the text, three backticks,
\* an optional json tag, then whitespace (\s* is greedy, so the optional
\* line break after it has nothing left to match).
StripOpeningFence(t) ==
  IF t # << >> /\ Head(t) = Fence
  THEN LET r == Tail(t)
       IN  TrimStart(IF r # << >> /\ IsJsonTag(Head(r)) THEN Tail(r) ELSE r)
  ELSE t

\* The second replace of line 141: the match is the last fence when only
\* whitespace follows it, with the line break before it when there is one.
StripClosingFence(t) ==
  LET closing == {j \in 1..Len(t) :
                    /\ t[j] = Fence
                    /\ \A i \in (j + 1)..Len(t) : IsWhitespace(t[i])}
  IN  IF closing = {} THEN t
      ELSE LET j == CHOOSE x \in closing : TRUE
               start == IF j > 1 /\ t[j - 1] = "\n" THEN j - 1 ELSE j
           IN  SubSeq(t, 1, start - 1)

StripFences(t) == Trim(StripClosingFence(StripOpeningFence(t)))

\* The text handed on as it came, with no default for an empty one.
OrEmptyObject_NoDefault(result) == result

\* result || "{}"
OrEmptyObject(result) == IF result = << >> THEN <<"{", "}">> ELSE result

\* ----------------------------------------------------------------- outcomes

NoError == [name |-> "none", call |-> 0]
\* The error a backend call rejects with; call is the call that raised it.
BackendError(name, call) == [name |-> name, call |-> call]
BackendErrorNames == {"NetworkError", "QuotaError"}
\* The TypeError a property read of null or undefined throws.
PropertyTypeError == [name |-> "TypeError", call |-> 0]

Pending == [st |-> "none", text |-> << >>, review |-> NoReview, err |-> NoError]
ReturnedText(t) == [Pending EXCEPT !.st = "returned", !.text = t]
ReturnedReview(v) == [Pending EXCEPT !.st = "returned", !.review = v]
Raised(e) == [Pending EXCEPT !.st = "raised", !.err = e]

\* The settlement of one backend call.
NotSettled == [st |-> "none", v |-> NoEnvelope, err |-> NoError]
Resolved(v) == [st |-> "ok", v |-> v, err |-> NoError]
Rejected(e) == [st |-> "raise", v |-> NoEnvelope, err |-> e]

\* ------------------------------------------------------- the three exports

\* JSON.parse with no catch around it.
ParseReview_NoCatch(result) ==
  LET p == JSONParse(StripFences(OrEmptyObject(result)))
  IN  IF p.ok THEN ReturnedReview(p.value)
      ELSE Raised([name |-> "SyntaxError", call |-> 0])

\* try { ... JSON.parse(text) } catch { return { notes: ... } }
ParseReview(result) ==
  LET p == JSONParse(StripFences(OrEmptyObject(result)))
  IN  IF p.ok THEN ReturnedReview(p.value) ELSE ReturnedReview(ErrorReview)

\* The await moved inside the try, so that its error becomes the error note.
evaluateResponseReturn_AwaitInTry(c) ==
  IF c.st = "raised" THEN ReturnedReview(ErrorReview) ELSE ParseReview(c.text)

\* const result = await chatWithFallback(prompt) stands outside the try.
evaluateResponseReturn(c) ==
  IF c.st = "raised" THEN Raised(c.err) ELSE ParseReview(c.text)

PolicyPlaceholder == <<"No response generated.">>
ReferencePlaceholder == <<"No reference generated.">>

\* return text || "No response generated."
generatePolicyResponseReturn(c) ==
  IF c.st = "raised" THEN Raised(c.err)
  ELSE ReturnedText(IF c.text # << >> THEN c.text ELSE PolicyPlaceholder)

\* The text returned as it came, with no placeholder for an empty one.
generateReferenceReturn_NoPlaceholder(c) ==
  IF c.st = "raised" THEN Raised(c.err) ELSE ReturnedText(c.text)

\* return text || "No reference generated."
generateReferenceReturn(c) ==
  IF c.st = "raised" THEN Raised(c.err)
  ELSE ReturnedText(IF c.text # << >> THEN c.text ELSE ReferencePlaceholder)

\* The continuation of the exported function after await chatWithFallback.
Return(f, c) ==
  IF f = "generatePolicyResponse" THEN generatePolicyResponseReturn(c)
  ELSE IF f = "evaluateResponse" THEN evaluateResponseReturn(c)
  ELSE generateReferenceReturn(c)

\* ------------------------------------------------------------------ prompts

MODEL == "claude-3-5-sonnet"
\* puter.ai.chat(prompt) with no options: the provider default.
NoModel == "(no model option)"

LowerCase == <<"a", "b", "c", "d", "e", "f", "g", "h", "i", "j", "k", "l", "m",
               "n", "o", "p", "q", "r", "s", "t", "u", "v", "w", "x", "y", "z">>
UpperCase == <<"A", "B", "C", "D", "E", "F", "G", "H", "I", "J", "K", "L", "M",
               "N", "O", "P", "Q", "R", "S", "T", "U", "V", "W", "X", "Y", "Z">>

\* String.prototype.toUpperCase, character by character.
UpperChar(c) ==
  IF \E i \in 1..Len(LowerCase) : LowerCase[i] = c
  THEN UpperCase[CHOOSE i \in 1..Len(LowerCase) : LowerCase[i] = c]
  ELSE c
ToUpperCase(s) == [i \in 1..Len(s) |-> UpperChar(s[i])]

Neutral == <<"n", "e", "u", "t", "r", "a", "l">>
Staffer == <<"s", "t", "a", "f", "f", "e", "r">>
Brief == <<"b", "r", "i", "e", "f">>
OnePager == <<"o", "n", "e", "-", "p", "a", "g", "e", "r">>
\* Reference['style']
ReferenceStyles == {Neutral, Staffer, Brief, OnePager}

\* styleGuides[style], as the template literal renders it: a key the table
\* lacks reads as undefined.
StyleGuide(s) ==
  IF s = Neutral
  THEN "Write in a neutral, objective academic tone. Present facts without advocacy. Suitable for non-partisan research offices."
  ELSE IF s = Staffer
  THEN "Write in the voice of a legislative staffer briefing their principal. Be direct, action-oriented, and politically aware. Highlight what matters for the vote."
  ELSE IF s = Brief
  THEN "Write a concise executive brief. Lead with the bottom line. Use bullet points and short paragraphs. Suitable for senior executives with limited time."
  ELSE IF s = OnePager
  THEN "Condense everything into a single-page format. Use headers, bullets, and bold text for scannability. Maximum 500 words."
  ELSE "undefined"

\* The style argument at run time, where the type annotation is erased: a
\* declared tag, another string, or no string at all.
StyleArg(s) == [k |-> "string", s |-> s]
NoStyle == [k |-> "undefined", s |-> << >>]
Bogus == <<"b", "o", "g", "u", "s">>
StyleArgs == {StyleArg(s) : s \in ReferenceStyles \cup {Bogus}} \cup {NoStyle}

\* A prompt, by the parts of it that vary between the operations: which
\* template it is, the WRITING STYLE line and the guidance line under it.
Prompt(f, styleLine, guide) == [fn |-> f, style |-> styleLine, guide |-> guide]
NoPrompt == Prompt("none", << >>, "")
PolicyPrompt == Prompt("generatePolicyResponse", << >>, "")
EvaluationPrompt == Prompt("evaluateResponse", << >>, "")
ReferencePrompt(s) == Prompt("generateReference", ToUpperCase(s), StyleGuide(s))

\* ------------------------------------------------------------- the backend

\* The texts the backend answers with in the runs of all three operations.
FlowTexts == {<< >>, <<"X">>, <<"{", ScoresMember, "}">>}

JustContent(c) == ObjEnv(NoMessage, c, Undefined, NoChoices)

FlowEnvelopes ==
  {StrEnv(t) : t \in FlowTexts}
    \cup {ObjEnv(Message(StrVal(t), Undefined), Undefined, Undefined, NoChoices) :
            t \in FlowTexts}
    \cup {JustContent(ArrVal(<<TextItem(<<"A">>), StrItem(<<"B">>)>>)),
          JustContent(ArrVal(<<NullItem>>)),
          JustContent(Undefined),
          ObjEnv(NoMessage, Undefined, Undefined,
                 ChoicesArr(<<Choice(NoMessage, StrVal(<<"Y">>))>>)),
          Primitive("null")}

\* The texts the evaluator's backend answers with: a body between a run of
\* fence, tag and whitespace tokens and a run of whitespace and fence tokens.
PrefixTokens == {Fence, "json", "JSON", "js", "\n"}
SuffixTokens == {"\n", Fence, " "}
Bodies == {<< >>, <<"{", "}">>, <<"{", ScoresMember, "}">>,
           <<"{", "\n", ScoresMember, ",", NotesMember, "\n", "}">>,
           <<"{", ScoresMember>>, <<"x">>, <<"null">>}
Prefixes == SeqsUpTo(PrefixTokens, MaxPrefixLen)
Suffixes == SeqsUpTo(SuffixTokens, MaxSuffixLen)
FencedTexts(prefixes) == {p \o b \o s : p \in prefixes, b \in Bodies, s \in Suffixes}

\* What a call may resolve to, by the family of backend behaviour of the run.
Results(b) ==
  IF b = "envelopes" THEN FlowEnvelopes
  ELSE {StrEnv(t) : t \in FencedTexts(Prefixes)}

\* --------------------------------------------------------- chatWithFallback

\* One issued call: its arguments, and how many earlier calls were still
\* unsettled when it was issued.
Call(p, model, unsettled) == [prompt |-> p, model |-> model, concurrent |-> unsettled]

\* The truthiness test of the preferred text inverted.
PreferredAccepted_Inverted(p) ==
  /\ p.st = "ok"
  /\ extractText(p.v).st = "ok"
  /\ extractText(p.v).text = << >>

\* The preferred text returned without the truthiness test.
PreferredAccepted_NoTest(p) ==
  /\ p.st = "ok"
  /\ extractText(p.v).st = "ok"

\* The try block returns: the preferred call resolved, extractText did not
\* throw, and if (preferredText) took the text as truthy.
PreferredAccepted(p) ==
  /\ p.st = "ok"
  /\ extractText(p.v).st = "ok"
  /\ extractText(p.v).text # << >>

\* return extractText(await puter.ai.chat(prompt)) outside any try.
FallbackOutcome(f) ==
  IF f.st = "raise" THEN Raised(f.err)
  ELSE IF extractText(f.v).st = "raise" THEN Raised(PropertyTypeError)
  ELSE ReturnedText(extractText(f.v).text)

\* ------------------------------------------------------------------ actions

Idle ==
  /\ fn = "none" /\ style = NoStyle /\ prompt = NoPrompt
  /\ calls = << >> /\ inflight = 0
  /\ preferred = NotSettled /\ fallback = NotSettled
  /\ cwf = Pending /\ ret = Pending
  /\ input = NoEnvelope /\ extracted = NotExtracted

\* The synchronous part of an exported function up to the first await: the
\* prompt is built and the preferred call is issued.
Start(f, p) ==
  /\ pc = "idle"
  /\ fn' = f
  /\ prompt' = p
  /\ calls' = Append(calls, Call(p, MODEL, inflight))
  /\ inflight' = inflight + 1
  /\ pc' = "awaitPreferred"
  /\ UNCHANGED <<backend, preferred, fallback, cwf, ret, input, extracted>>

generatePolicyResponse == Start("generatePolicyResponse", PolicyPrompt) /\ UNCHANGED style

evaluateResponse == Start("evaluateResponse", EvaluationPrompt) /\ UNCHANGED style

\* style.toUpperCase() of a value that is no string throws while the prompt
\* is built; any string passes.
generateReference ==
  \E s \in StyleArgs :
    /\ style' = s
    /\ IF s.k = "string"
       THEN Start("generateReference", ReferencePrompt(s.s))
       ELSE /\ pc = "idle"
            /\ fn' = "generateReference"
            /\ ret' = Raised(PropertyTypeError)
            /\ pc' = "done"
            /\ UNCHANGED <<backend, prompt, calls, inflight, preferred, fallback,
                           cwf, input, extracted>>

\* The fallback call, issued by the continuation of the preferred attempt.
IssueFallback ==
  /\ calls' = Append(calls, Call(prompt, NoModel, inflight - 1))
  /\ inflight' = inflight
  /\ pc' = "awaitFallback"
  /\ UNCHANGED <<cwf, ret>>

\* chatWithFallback returns or raises, and the exported function finishes.
Finish(c) ==
  /\ cwf' = c
  /\ ret' = Return(fn, c)
  /\ inflight' = inflight - 1
  /\ pc' = "done"
  /\ UNCHANGED calls

PreferredReturns ==
  /\ pc = "awaitPreferred"
  /\ \E v \in Results(backend) :
       /\ preferred' = Resolved(v)
       /\ IF PreferredAccepted(Resolved(v))
          THEN Finish(ReturnedText(extractText(v).text))
          ELSE IssueFallback
  /\ UNCHANGED <<backend, fn, style, prompt, fallback, input, extracted>>

PreferredRaises ==
  /\ pc = "awaitPreferred"
  /\ \E name \in BackendErrorNames :
       /\ preferred' = Rejected(BackendError(name, 1))
       /\ IF PreferredAccepted(Rejected(BackendError(name, 1)))
          THEN Finish(ReturnedText(<< >>))
          ELSE IssueFallback
  /\ UNCHANGED <<backend, fn, style, prompt, fallback, input, extracted>>

FallbackReturns ==
  /\ pc = "awaitFallback"
  /\ \E v \in Results(backend) :
       /\ fallback' = Resolved(v)
       /\ Finish(FallbackOutcome(Resolved(v)))
  /\ UNCHANGED <<backend, fn, style, prompt, preferred, input, extracted>>

FallbackRaises ==
  /\ pc = "awaitFallback"
  /\ \E name \in BackendErrorNames :
       /\ fallback' = Rejected(BackendError(name, 2))
       /\ Finish(FallbackOutcome(Rejected(BackendError(name, 2))))
  /\ UNCHANGED <<backend, fn, style, prompt, preferred, input, extracted>>

\* extractText applied to one value.
ExtractText ==
  /\ pc = "extract"
  /\ extracted' = extractText(input)
  /\ pc' = "extracted"
  /\ UNCHANGED <<backend, fn, style, prompt, calls, inflight, preferred, fallback,
                 cwf, ret, input>>

\* ----------------------------------------------------------- specifications

\* One call of one of the three exported functions.
Init == pc = "idle" /\ backend = "envelopes" /\ Idle

Next ==
  \/ generatePolicyResponse
  \/ evaluateResponse
  \/ generateReference
  \/ PreferredReturns
  \/ PreferredRaises
  \/ FallbackReturns
  \/ FallbackRaises

Spec == Init /\ [][Next]_vars

\* One call of evaluateResponse against fenced and unfenced backend texts.
InitParse == pc = "idle" /\ backend = "fencedTexts" /\ Idle

NextParse ==
  \/ evaluateResponse
  \/ PreferredReturns
  \/ PreferredRaises
  \/ FallbackReturns
  \/ FallbackRaises

SpecParse == InitParse /\ [][NextParse]_vars

\* extractText on every envelope of the bounded family.
InitExtract ==
  /\ pc = "extract" /\ backend = "envelopes"
  /\ fn = "none" /\ style = NoStyle /\ prompt = NoPrompt
  /\ calls = << >> /\ inflight = 0
  /\ preferred = NotSettled /\ fallback = NotSettled
  /\ cwf = Pending /\ ret = Pending
  /\ \/ input \in PrimitiveEnvelopes
     \/ \E m \in Messages : input \in ObjectEnvelopes(m)
  /\ extracted = NotExtracted

NextExtract == ExtractText

SpecExtract == InitExtract /\ [][NextExtract]_vars

\* --------------------------------------------------------------- properties

Done == pc = "done"

\* The try block of chatWithFallback fell through: the preferred call raised,
\* extractText threw on its result, or the extracted text was empty.
PreferredFellThrough ==
  \/ preferred.st = "raise"
  \/ /\ preferred.st = "ok"
     /\ \/ extractText(preferred.v).st = "raise"
        \/ extractText(preferred.v).text = << >>

PreferredGaveText ==
  /\ preferred.st = "ok"
  /\ extractText(preferred.v).st = "ok"
  /\ extractText(preferred.v).text # << >>

FallbackGaveEmptyText ==
  fallback.st = "ok" /\ extractText(fallback.v) = Ok(<< >>)

\* C1: when the preferred call returns and the text extracted from its result
\* is not empty, the invocation is over with that one call, no call without a
\* model option was issued, and chatWithFallback returned exactly that text.
C1_PreferredTextSkipsFallback ==
  PreferredGaveText =>
    /\ Done
    /\ calls = <<Call(prompt, MODEL, 0)>>
    /\ \A i \in 1..Len(calls) : calls[i].model # NoModel
    /\ fallback = NotSettled
    /\ cwf = ReturnedText(extractText(preferred.v).text)

C1_Witness ==
  /\ PreferredGaveText /\ Done
  /\ cwf.st = "returned" /\ cwf.text = <<"X">>

\* C2: no invocation issues more than two calls, the first is the preferred
\* one and no call is issued while another is unsettled; when the preferred
\* attempt raised or gave empty text, exactly one further call has been
\* issued, after the preferred one settled, with the same prompt and no model
\* option, and when that call returns a result with extractable text the
\* invocation returns exactly that text (which may be empty); an invocation
\* that returned after the fall-through returned the fallback's text.
C2_ExactlyOneFallback ==
  /\ Len(calls) <= 2
  /\ \A i \in 1..Len(calls) : calls[i].concurrent = 0
  /\ Len(calls) >= 1 => calls[1] = Call(prompt, MODEL, 0)
  /\ Len(calls) = 2 => preferred.st # "none" /\ PreferredFellThrough
  /\ PreferredFellThrough =>
       /\ Len(calls) = 2
       /\ calls[2] = Call(calls[1].prompt, NoModel, 0)
       /\ fallback.st = "ok" /\ extractText(fallback.v).st = "ok" =>
            /\ Done
            /\ cwf = ReturnedText(extractText(fallback.v).text)
       /\ cwf.st = "returned" =>
            /\ fallback.st = "ok"
            /\ cwf.text = extractText(fallback.v).text

C2_Witness ==
  /\ preferred.st = "ok" /\ extractText(preferred.v) = Ok(<< >>)
  /\ Len(calls) = 2 /\ Done
  /\ FallbackGaveEmptyText
  /\ cwf = ReturnedText(<< >>)

\* C3: an error raised by the fallback call leaves chatWithFallback and the
\* exported function unchanged, whichever of the three functions was called,
\* and is not turned into a returned value; an error raised by the preferred
\* call is never the error the caller gets, and with a fallback result whose
\* text extracts the caller gets a returned value.
C3_FallbackErrorPropagates ==
  /\ fallback.st = "raise" =>
       /\ Done
       /\ fn \in {"generatePolicyResponse", "evaluateResponse", "generateReference"}
       /\ fallback.err.call = 2
       /\ cwf = Raised(fallback.err)
       /\ ret = Raised(fallback.err)
  /\ preferred.st = "raise" =>
       /\ cwf.err # preferred.err
       /\ ret.err # preferred.err
       /\ fallback.st = "ok" /\ extractText(fallback.v).st = "ok" =>
            ret.st = "returned"

C3_Witness ==
  /\ fn = "evaluateResponse"
  /\ preferred.st = "raise"
  /\ fallback.st = "raise"
  /\ ret.st = "raised" /\ ret.err = BackendError("QuotaError", 2)

\* The text extractText is claimed to return: the first non-empty string
\* among the candidate locations in their priority order, ignoring elements
\* and entries that are no strings or objects.
ClaimedStrings(v) == IF v.k = "string" THEN v.s ELSE << >>
ClaimedItems(v) ==
  IF v.k = "array"
  THEN Trim(Join(SelectSeq(v.a, LAMBDA item : ~ItemThrows(item))))
  ELSE << >>
ClaimedFirstChoice(ch) ==
  IF ch.k = "array" /\ Len(ch.a) > 0 /\ ch.a[1].k = "object"
  THEN IF ClaimedStrings(OptContent(ch.a[1].message)) # << >>
       THEN ClaimedStrings(OptContent(ch.a[1].message))
       ELSE ClaimedStrings(ch.a[1].text)
  ELSE << >>
ClaimedCandidates(e) ==
  IF e.k = "string" THEN <<e.s>>
  ELSE IF e.k # "object" THEN << >>
  ELSE <<ClaimedStrings(OptContent(e.message)), ClaimedStrings(e.content),
         ClaimedItems(OptContent(e.message)), ClaimedItems(e.content),
         ClaimedStrings(OptText(e.message)), ClaimedStrings(e.text),
         ClaimedFirstChoice(e.choices)>>
ClaimedText(e) ==
  LET c == ClaimedCandidates(e)
      nonEmpty == {i \in 1..Len(c) : c[i] # << >>}
  IN  IF nonEmpty = {} THEN << >>
      ELSE c[CHOOSE i \in nonEmpty : \A j \in nonEmpty : i <= j]

\* C4: whenever extractText returns, it returns the first non-empty string
\* among the candidate locations in their priority order, and the empty
\* string only when no candidate holds a non-empty string; an earlier
\* candidate that is present but empty does not hide a later non-empty one.
C4_FirstNonEmptyCandidate ==
  pc = "extracted" /\ extracted.st = "ok" => extracted.text = ClaimedText(input)

\* C5: extractText raises for no input: it returns a string for every
\* envelope, and the empty string when the input is neither a string nor an
\* object.
C5_ExtractNeverRaises ==
  pc = "extracted" =>
    /\ extracted.st = "ok"
    /\ input.k \notin {"string", "object"} => extracted.text = << >>

\* The text evaluateResponse hands to JSON.parse.
TextToParse == StripFences(OrEmptyObject(cwf.text))

DeclaredStyleArgs == {StyleArg(s) : s \in ReferenceStyles}

\* C7: generateReference issues no backend call for a style outside the four
\* declared tags, and for a declared tag the prompt of every call it issues
\* holds that tag's guidance string and the tag in upper case.
C7_UndeclaredStyleRejected ==
  fn = "generateReference" =>
    /\ style \notin DeclaredStyleArgs => calls = << >>
    /\ style \in DeclaredStyleArgs =>
         \A i \in 1..Len(calls) :
           /\ calls[i].prompt.guide = StyleGuide(style.s)
           /\ calls[i].prompt.guide # "undefined"
           /\ calls[i].prompt.style = ToUpperCase(style.s)

\* The JSON documents among the bodies, and a document between an opening
\* fence with the given tag and a closing fence, each on a line of its own.
JsonDocuments == {b \in Bodies : JSONParse(b).ok}
Fenced(tag, doc) == <<Fence>> \o tag \o <<"\n">> \o doc \o <<"\n", Fence>>

\* The result evaluateResponse gives for a fenced document is the result it
\* gives for the document alone, for each of the given tags.
FencedParsesAsUnfenced(tags) ==
  \A doc \in JsonDocuments, tag \in tags :
    fn = "evaluateResponse" /\ cwf = ReturnedText(Fenced(tag, doc)) =>
      /\ ret = ParseReview(doc)
      /\ ret = ReturnedReview(JSONParse(doc).value)
      /\ ret.review # ErrorReview

\* C8 as stated: a fenced JSON document parses as the document alone whether
\* the opening fence carries no language tag or a language tag.
C8_AnyLanguageTag ==
  FencedParsesAsUnfenced({<< >>, <<"json">>, <<"JSON">>, <<"js">>})

\* C8 as amended: a fenced JSON document parses as the document alone when
\* the opening fence carries no language tag or the tag json in either
\* letter case.
C8_JsonTagOrNone == FencedParsesAsUnfenced({<< >>, <<"json">>, <<"JSON">>})

C8_Witness ==
  /\ fn = "evaluateResponse"
  /\ cwf = ReturnedText(Fenced(<<"json">>, <<"{", ScoresMember, "}">>))
  /\ ret.st = "returned" /\ ret.review.scoresA = 5

\* C9: when generatePolicyResponse or generateReference returns, the string
\* is not empty: it is the text of chatWithFallback when that is not empty
\* and the function's placeholder when it is empty, and that text is empty
\* exactly when the preferred attempt gave no text and the fallback's result
\* extracted to the empty string.
C9_NeverEmpty ==
  fn \in {"generatePolicyResponse", "generateReference"} /\ ret.st = "returned" =>
    /\ cwf.st = "returned"
    /\ ret.text # << >>
    /\ cwf.text # << >> => ret.text = cwf.text
    /\ cwf.text = << >> =>
         ret.text = IF fn = "generatePolicyResponse"
                    THEN <<"No response generated.">>
                    ELSE <<"No reference generated.">>
    /\ cwf.text = << >> <=> PreferredFellThrough /\ FallbackGaveEmptyText

C9_Witness ==
  /\ fn = "generateReference"
  /\ PreferredFellThrough /\ FallbackGaveEmptyText
  /\ ret = ReturnedText(<<"No reference generated.">>)

\* C10: when evaluateResponse gets the empty text from chatWithFallback (the
\* preferred attempt gave no text and the fallback's result extracted to the
\* empty string), it returns the object with no field at all, the result of
\* parsing the text of an empty object, and not the error note.
C10_EmptyTextGivesEmptyObject ==
  fn = "evaluateResponse" /\ FallbackGaveEmptyText =>
    /\ cwf = ReturnedText(<< >>)
    /\ ret.st = "returned"
    /\ ret.review.k = "object" /\ ret.review.keys = {}
    /\ ret = ReturnedReview(JSONParse(<<"{", "}">>).value)
    /\ ret.review # ErrorReview

C10_Witness ==
  /\ fn = "evaluateResponse"
  /\ preferred.st = "ok" /\ extractText(preferred.v) = Ok(<< >>)
  /\ FallbackGaveEmptyText
  /\ ret = ReturnedReview(EmptyObject)

====
